---- MODULE Spec2Model ----
(***************************************************************************)
(* The weather route of phaleixo/weather-api: the METAR decoder, the       *)
(* humidity calculator, the module-level cache with its snapshot file and  *)
(* the GET handler, for the two route modules held in src/unnamed/part_000 *)
(* (lines 1-365: the route with change detection and normalize-on-read;    *)
(* lines 367-689: the route with the CORS handler).                        *)
(*                                                                         *)
(* Strings are TLA+ strings, read character by character with SubSeq.     *)
(* A JavaScript value that may be null or undefined is a sequence of       *)
(* length 0 (Null) or 1 (Some(v)).                                         *)
(***************************************************************************)
EXTENDS Integers, Sequences, FiniteSets, TLC

Null == <<>>

Some(v) == <<v>>

IsNull(o) == Len(o) = 0

Val(o) == o[1]

Min(S) == CHOOSE m \in S : \A n \in S : m <= n

Max(S) == CHOOSE m \in S : \A n \in S : n <= m

MinOr0(S) == IF S = {} THEN 0 ELSE Min(S)

(***************************************************************************)
(* Characters and the pieces of the regular expressions.                   *)
(***************************************************************************)
Digit == {"0", "1", "2", "3", "4", "5", "6", "7", "8", "9"}

Upper ==
  {"A", "B", "C", "D", "E", "F", "G", "H", "I", "J", "K", "L", "M",
   "N", "O", "P", "Q", "R", "S", "T", "U", "V", "W", "X", "Y", "Z"}

Lower ==
  {"a", "b", "c", "d", "e", "f", "g", "h", "i", "j", "k", "l", "m",
   "n", "o", "p", "q", "r", "s", "t", "u", "v", "w", "x", "y", "z"}

\* \w of a JavaScript regular expression
WordCh == Digit \cup Upper \cup Lower \cup {"_"}

\* \s of a JavaScript regular expression (the ASCII part)
WhiteSpace == {" ", "\t", "\n", "\r", "\f"}

\* the character of s at position i, "" outside the string
Ch(s, i) == IF i >= 1 /\ i <= Len(s) THEN SubSeq(s, i, i) ELSE ""

\* s from position i to its end
From(s, i) == IF i > Len(s) THEN "" ELSE SubSeq(s, i, Len(s))

\* the literal lit stands in s at position i
LitAt(s, i, lit) ==
  /\ i >= 1
  /\ i + Len(lit) - 1 <= Len(s)
  /\ SubSeq(s, i, i + Len(lit) - 1) = lit

\* the n characters of s from position i are all in the class S
AllIn(s, i, n, S) == \A k \in i..(i + n - 1) : Ch(s, k) \in S

\* \b between positions i-1 and i
WordBoundary(s, i) == (Ch(s, i - 1) \in WordCh) # (Ch(s, i) \in WordCh)

\* one of the literals of the set lits stands in s at position i
AnyLitAt(s, i, lits) == \E l \in lits : LitAt(s, i, l)

\* String.prototype.trim
Span(s, keep) == IF keep = {} THEN "" ELSE SubSeq(s, Min(keep), Max(keep))

trim(s) == Span(s, {i \in 1..Len(s) : Ch(s, i) \notin WhiteSpace})

\* String.prototype.indexOf, 1-based; 0 when lit does not occur
indexOf(s, lit) == MinOr0({i \in 1..Len(s) : LitAt(s, i, lit)})

\* data.split("\n")[0]
Before(s, i) == IF i = 0 THEN s ELSE SubSeq(s, 1, i - 1)

FirstLine(data) == Before(data, indexOf(data, "\n"))

DigitVal(c) ==
  CASE c = "0" -> 0 [] c = "1" -> 1 [] c = "2" -> 2 [] c = "3" -> 3
    [] c = "4" -> 4 [] c = "5" -> 5 [] c = "6" -> 6 [] c = "7" -> 7
    [] c = "8" -> 8 [] c = "9" -> 9

RECURSIVE ParseDigits(_)
ParseDigits(s) ==
  IF s = "" THEN 0
  ELSE ParseDigits(SubSeq(s, 1, Len(s) - 1)) * 10 + DigitVal(Ch(s, Len(s)))

\* parseInt(s, 10) on an optional "-" followed by digits
parseInt(s) ==
  IF Ch(s, 1) = "-" THEN 0 - ParseDigits(From(s, 2)) ELSE ParseDigits(s)

\* s.replace("M", "-"): the first M of s becomes "-"
ReplaceAt(s, m) ==
  IF m = 0 THEN s ELSE SubSeq(s, 1, m - 1) \o "-" \o From(s, m + 1)

ReplaceM(s) == ReplaceAt(s, indexOf(s, "M"))

DigitStr(d) == SubSeq("0123456789", d + 1, d + 1)

\* a number 0..99 as two digits
Pad2(n) == DigitStr(n \div 10) \o DigitStr(n % 10)

\* a comes before b in the order a backtracking matcher tries greedy
\* quantifiers: the longer repetition first, position by position
LexGreater(a, b) ==
  \E k \in 1..Len(a) : a[k] > b[k] /\ \A j \in 1..(k - 1) : a[j] = b[j]

\* the candidate the matcher finds first
Greediest(S) == CHOOSE a \in S : \A b \in S \ {a} : LexGreater(a, b)

(***************************************************************************)
(* parseMetar: one operator per regular expression.                        *)
(***************************************************************************)
CloudTypes == {"SKC", "CLR", "FEW", "SCT", "BKN", "OVC"}

WxPrefixes == {"-", "+", "VC"}

WxDescriptors == {"MI", "PR", "BC", "DR", "BL", "SH", "TS", "FZ"}

WxPhenomena ==
  {"DZ", "RA", "SN", "SG", "IC", "PL", "GR", "GS", "UP", "BR", "FG", "SS",
   "DS", "SQ", "PO"}

\* the text of s from lo to hi places after the first position of the set
\* at; null when at is empty (no match)
SliceAtFirst(s, at, lo, hi) ==
  IF at = {} THEN Null ELSE Some(SubSeq(s, Min(at) + lo, Min(at) + hi))

\* /^METAR\s+([A-Z]{4})/: group 1
stationMatch(metar) ==
  SliceAtFirst(metar,
               {6 + k : k \in {j \in 1..Len(metar) :
                                 /\ LitAt(metar, 1, "METAR")
                                 /\ AllIn(metar, 6, j, WhiteSpace)
                                 /\ AllIn(metar, 6 + j, 4, Upper)}},
               0, 3)

\* /\b(\d{6}Z)\b/: group 1
timeMatch(metar) ==
  SliceAtFirst(metar,
               {i \in 1..Len(metar) :
                  /\ WordBoundary(metar, i)
                  /\ AllIn(metar, i, 6, Digit)
                  /\ Ch(metar, i + 6) = "Z"
                  /\ WordBoundary(metar, i + 7)},
               0, 6)

\* the wind group stands at i with a speed of sl digits and a gust of gl
\* digits (gl = 0: no gust group); kt is where "KT" must stand
WindAt(metar, i, sl, gl, kt) ==
  /\ WordBoundary(metar, i)
  /\ AllIn(metar, i, 3, Digit) \/ LitAt(metar, i, "VRB")
  /\ AllIn(metar, i + 3, sl, Digit)
  /\ gl > 0 => Ch(metar, i + 3 + sl) = "G" /\ AllIn(metar, i + 4 + sl, gl, Digit)
  /\ LitAt(metar, kt, "KT")
  /\ WordBoundary(metar, kt + 2)

\* the first of the candidates <<position, lengths...>>: the leftmost
\* position, and at that position the lengths the matcher tries first
FirstMatch(cand) ==
  Greediest({c \in cand : \A d \in cand : c[1] <= d[1]})

\* the wind object of the match c = <<position, speed digits, gust digits>>
windOf(metar, c) ==
  [dir |-> SubSeq(metar, c[1], c[1] + 2),
   speedKt |-> parseInt(SubSeq(metar, c[1] + 3, c[1] + 2 + c[2])),
   gustKt |-> IF c[3] = 0 THEN Null
              ELSE Some(parseInt(SubSeq(metar, c[1] + 4 + c[2],
                                        c[1] + 3 + c[2] + c[3])))]

\* the wind object of the first candidate; null when there is none
windAmong(metar, cand) ==
  IF cand = {} THEN Null ELSE Some(windOf(metar, FirstMatch(cand)))

\* /\b(\d{3}|VRB)(\d{2,3})(G(\d{2,3}))?KT\b/ and the wind object built from it
windMatch(metar) ==
  windAmong(metar,
               {c \in (1..Len(metar)) \X {2, 3} \X {0, 2, 3} :
                  WindAt(metar, c[1], c[2], c[3],
                         c[1] + 3 + c[2] + (IF c[3] = 0 THEN 0 ELSE 1 + c[3]))})

\* group 1 of the visibility match c = <<position, length>>
visOf(metar, c) == SubSeq(metar, c[1], c[1] + c[2] - 1)

\* group 1 of the first candidate; null when there is none
visAmong(metar, cand) ==
  IF cand = {} THEN Null ELSE Some(visOf(metar, FirstMatch(cand)))

\* /\b(CAVOK|9999|\d{4})\b/: group 1
visMatch(metar) ==
  visAmong(metar,
               {c \in (1..Len(metar)) \X {4, 5} :
                  /\ WordBoundary(metar, c[1])
                  /\ IF c[2] = 5 THEN LitAt(metar, c[1], "CAVOK")
                     ELSE AllIn(metar, c[1], 4, Digit)
                  /\ WordBoundary(metar, c[1] + c[2])})

\* visMatch[1] === "9999" || visMatch[1] === "CAVOK" ? ">=10km" : `${visMatch[1]} m`
\* a visibility that is always given in metres: C20 fails with it
visibilityTextMetres(m) ==
  IF IsNull(m) THEN Null ELSE Some(Val(m) \o " m")

visibilityText(m) ==
  IF IsNull(m) THEN Null
  ELSE IF Val(m) = "9999" \/ Val(m) = "CAVOK" THEN Some(">=10km")
  ELSE Some(Val(m) \o " m")

\* the cloud group stands at i with a modifier of ml letters
CloudAt(metar, i, ml) ==
  /\ WordBoundary(metar, i)
  /\ AnyLitAt(metar, i, CloudTypes)
  /\ AllIn(metar, i + 3, 3, Digit)
  /\ AllIn(metar, i + 6, ml, Upper)
  /\ WordBoundary(metar, i + 6 + ml)

\* {type, heightFt, modifier} of the cloud match c = <<position, modifier letters>>
cloudOf(metar, c) ==
  [type |-> SubSeq(metar, c[1], c[1] + 2),
   heightFt |-> parseInt(SubSeq(metar, c[1] + 3, c[1] + 5)) * 100,
   modifier |-> IF c[2] = 0 THEN Null
                ELSE Some(SubSeq(metar, c[1] + 6, c[1] + 5 + c[2]))]

RECURSIVE cloudsFrom(_, _)
\* the first cloud match c and the matches after its end
cloudsWith(metar, c) ==
  <<cloudOf(metar, c)>> \o cloudsFrom(metar, c[1] + 6 + c[2])

\* the matches among the candidates cand
cloudsAmong(metar, cand) ==
  IF cand = {} THEN <<>> ELSE cloudsWith(metar, FirstMatch(cand))

\* matchAll(/\b(SKC|CLR|FEW|SCT|BKN|OVC)(\d{3})([A-Z]{0,2})?\b/g) from position
\* from on, each match mapped to {type, heightFt, modifier}
cloudsFrom(metar, from) ==
  cloudsAmong(metar, {c \in (from..Len(metar)) \X {0, 1, 2} :
                        CloudAt(metar, c[1], c[2])})

\* the temperature group stands at i: m1, m2 = 1 when the side carries an M,
\* d1, d2 the digits of each side; right is where the right side starts
TempDewAt(metar, i, m1, d1, m2, d2, right) ==
  /\ WordBoundary(metar, i)
  /\ m1 = 1 => Ch(metar, i) = "M"
  /\ AllIn(metar, i + m1, d1, Digit)
  /\ Ch(metar, right - 1) = "/"
  /\ m2 = 1 => Ch(metar, right) = "M"
  /\ AllIn(metar, right + m2, d2, Digit)
  /\ WordBoundary(metar, right + m2 + d2)

\* groups 1 and 2 of the temperature match c = <<position, m1, d1, m2, d2>>
tempDewOf(metar, c) ==
  <<SubSeq(metar, c[1], c[1] + c[2] + c[3] - 1),
    SubSeq(metar, c[1] + c[2] + c[3] + 1, c[1] + c[2] + c[3] + c[4] + c[5])>>

\* the groups of the first candidate; null when there is none
tempDewAmong(metar, cand) ==
  IF cand = {} THEN Null ELSE Some(tempDewOf(metar, FirstMatch(cand)))

\* /\b(M?\d{1,2})\/(M?\d{1,2})\b/: groups 1 and 2
tempDewMatch(metar) ==
  tempDewAmong(metar,
               {c \in (1..Len(metar)) \X {0, 1} \X {1, 2} \X {0, 1} \X {1, 2} :
                  TempDewAt(metar, c[1], c[2], c[3], c[4], c[5],
                            c[1] + c[2] + c[3] + 1)})

\* /\bQ(\d{4})\b/ and /\bA(\d{4})\b/: group 1
pressureMatch(metar, letter) ==
  SliceAtFirst(metar,
               {i \in 1..Len(metar) :
                  /\ WordBoundary(metar, i)
                  /\ Ch(metar, i) = letter
                  /\ AllIn(metar, i + 1, 4, Digit)
                  /\ WordBoundary(metar, i + 5)},
               1, 4)

\* the present-weather texts: optional prefix, optional descriptor, phenomenon
WeatherTexts ==
  {pre \o de \o ph : pre \in WxPrefixes \cup {""},
                     de \in WxDescriptors \cup {""},
                     ph \in WxPhenomena}

\* the weather pattern matches at position p with a text of n characters
WeatherAt(metar, p, n) ==
  p + n - 1 <= Len(metar) /\ SubSeq(metar, p, p + n - 1) \in WeatherTexts

RECURSIVE weatherFrom(_, _)
\* the first weather match c = <<position, length>>, trimmed, and the matches
\* after its end
weatherWith(metar, c) ==
  <<trim(SubSeq(metar, c[1], c[1] + c[2] - 1))>>
    \o weatherFrom(metar, c[1] + c[2])

\* the matches among the candidates cand
weatherAmong(metar, cand) ==
  IF cand = {} THEN <<>> ELSE weatherWith(metar, FirstMatch(cand))

\* matchAll(/(?:\s|^)(?:(-|\+|VC)?(?:(MI|..|FZ)?(?:DZ|..|PO)))/g) from position
\* from on: a match is a white space followed by a weather text, or a weather
\* text at the start of the string
weatherFrom(metar, from) ==
  weatherAmong(metar,
               {c \in (from..Len(metar)) \X (2..7) :
                  \/ Ch(metar, c[1]) \in WhiteSpace
                     /\ WeatherAt(metar, c[1] + 1, c[2] - 1)
                  \/ c[1] = 1 /\ WeatherAt(metar, 1, c[2])})

\* qnhMatch ? {qnh_hpa: parseInt(qnhMatch[1], 10)} : aMatch ? {alt_inhg: aMatch[1]} : null
\* a decoder that keeps the A-group next to the Q-group: C10 fails with it
pressureOfBoth(qnhMatch, aMatch) ==
  [qnh_hpa |-> IF ~IsNull(qnhMatch) THEN Some(parseInt(Val(qnhMatch))) ELSE Null,
   alt_inhg |-> IF ~IsNull(aMatch) THEN aMatch ELSE Null]

pressureOf(qnhMatch, aMatch) ==
  [qnh_hpa |-> IF ~IsNull(qnhMatch) THEN Some(parseInt(Val(qnhMatch))) ELSE Null,
   alt_inhg |-> IF IsNull(qnhMatch) /\ ~IsNull(aMatch) THEN aMatch ELSE Null]

\* tempDewMatch ? parseInt(tempDewMatch[side].replace("M", "-"), 10) : null
\* the digits of a side, without its M
Magnitude(text) == ParseDigits(IF Ch(text, 1) = "M" THEN From(text, 2) ELSE text)

\* a decode that gives both sides the sign of the temperature: C22 fails
\* with it
signedValueOfFirst(tempDew, side) ==
  IF IsNull(tempDew) THEN Null
  ELSE Some(IF Ch(Val(tempDew)[1], 1) = "M" THEN 0 - Magnitude(Val(tempDew)[side])
            ELSE Magnitude(Val(tempDew)[side]))

signedValue(tempDew, side) ==
  IF IsNull(tempDew) THEN Null ELSE Some(parseInt(ReplaceM(Val(tempDew)[side])))

\* weatherMatches.length ? weatherMatches : null
nullIfEmpty(matches) == IF matches = <<>> THEN Null ELSE Some(matches)

\* obsTimeLocal of the route with the CORS handler: day, hour and minute of
\* the group read as a UTC date of the current month, three hours added,
\* printed as HH:MM (a server running on UTC; the day and the month do not
\* reach the printed time)
\* the zones a process can run in: UTC, a zone without daylight saving time
\* and one with it
Zones == {"UTC", "America/Sao_Paulo", "America/New_York"}

\* the months the clock of the process can show (getUTCMonth() + 1)
Months == {1, 7}

\* minutes to add to UTC for the local time of the zone at a date of the
\* month (a date that the day of a report, 01 to 31, and the three hours
\* added do not move across a change of offset)
zoneOffset(zone, month) ==
  CASE zone = "UTC" -> 0
    [] zone = "America/Sao_Paulo" -> -3 * 60
    [] zone = "America/New_York" -> IF month \in 4..10 THEN -4 * 60 ELSE -5 * 60

\* the minute of the day, 0..1439
minuteOfDay(minutes) == ((minutes % (24 * 60)) + 24 * 60) % (24 * 60)

\* HH:MM of a minute of the day
clockText(m) == Pad2(m \div 60) \o ":" \o Pad2(m % 60)

\* Date.UTC(year, month, day, hour, minute), setUTCHours(getUTCHours() + 3)
\* and toLocaleTimeString("pt-BR", {hour: "2-digit", minute: "2-digit"}),
\* which formats in the zone of the process
localTimeIn(zone, month, hour, minute) ==
  clockText(minuteOfDay(hour * 60 + minute + 3 * 60 + zoneOffset(zone, month)))

localTime(hour, minute) == localTimeIn("UTC", 1, hour, minute)

obsTimeLocalIn(zone, month, obsTime) ==
  IF IsNull(obsTime) THEN Null
  ELSE Some(localTimeIn(zone, month, parseInt(SubSeq(Val(obsTime), 3, 4)),
                        parseInt(SubSeq(Val(obsTime), 5, 6))))

obsTimeLocalOf(obsTime) == obsTimeLocalIn("UTC", 1, obsTime)

\* the object parseMetar returns for an empty report: {}
EmptyObservation ==
  [raw |-> Null, station |-> Null, obsTime |-> Null, obsTimeLocal |-> Null,
   wind |-> Null, visibility |-> Null, clouds |-> Null, weather |-> Null,
   temperatureC |-> Null, dewPointC |-> Null, qnh_hpa |-> Null, alt_inhg |-> Null]

\* the object parseMetar returns for the trimmed, non-empty report metar
observation(metar, tempDew, pressure) ==
  [raw |-> Some(metar),
   station |-> stationMatch(metar),
   obsTime |-> timeMatch(metar),
   obsTimeLocal |-> Null,
   wind |-> windMatch(metar),
   visibility |-> visibilityText(visMatch(metar)),
   clouds |-> Some(cloudsFrom(metar, 1)),
   weather |-> nullIfEmpty(weatherFrom(metar, 1)),
   temperatureC |-> signedValue(tempDew, 1),
   dewPointC |-> signedValue(tempDew, 2),
   qnh_hpa |-> pressure.qnh_hpa,
   alt_inhg |-> pressure.alt_inhg]

\* the decode of the trimmed report metar
decodeTrimmed(metar) ==
  IF metar = "" THEN EmptyObservation
  ELSE observation(metar, tempDewMatch(metar),
                   pressureOf(pressureMatch(metar, "Q"), pressureMatch(metar, "A")))

\* parseMetar of the route with normalize-on-read (no obsTimeLocal)
parseMetar(metarStr) == decodeTrimmed(trim(metarStr))

\* the observation with its obsTimeLocal
withLocalTime(parsed) ==
  [parsed EXCEPT !.obsTimeLocal = obsTimeLocalOf(parsed.obsTime)]

\* parseMetar of the route with the CORS handler: the same fields and obsTimeLocal
parseMetarLocal(metarStr) == withLocalTime(parseMetar(metarStr))

\* the observation with the obsTimeLocal of a process in zone whose clock
\* shows month
withLocalTimeIn(zone, month, parsed) ==
  [parsed EXCEPT !.obsTimeLocal = obsTimeLocalIn(zone, month, parsed.obsTime)]

\* parseMetar of the route rt, called in a process in zone whose clock shows
\* month
parseMetarAt(rt, zone, month, metarStr) ==
  IF rt = "normalize" THEN parseMetar(metarStr)
  ELSE withLocalTimeIn(zone, month, parseMetar(metarStr))

(***************************************************************************)
(* calculateHumidity.  The exponent g(dew) - g(temp), g(x) = 17.625 x /     *)
(* (243.04 + x), is the fraction 5354475 (dew - temp) / (2 (6076 + 25 dew)  *)
(* (6076 + 25 temp)); it is computed to six decimals by long division.  *)
(* Math.round(100 * Math.exp(z)) >= h exactly when z >= ln((h - 0.5)/100),  *)
(* and LnThreshold[h] holds that bound in millionths, for h = 1..200.       *)
(***************************************************************************)
LnThreshold ==
  <<
    -5298317, -4199705, -3688879, -3352407, -3101092, -2900422, -2733368, -2590267,
    -2465104, -2353878, -2253794, -2162823, -2079441, -2002480, -1931021, -1864330,
    -1801809, -1742969, -1687399, -1634755, -1584745, -1537117, -1491654, -1448169,
    -1406497, -1366491, -1328025, -1290984, -1255266, -1220779, -1187443, -1155182,
    -1123930, -1093624, -1064210, -1035637, -1007857, -980829, -954511, -928869,
    -903868, -879476, -855666, -832409, -809680, -787457, -765717, -744440,
    -723606, -703197, -683196, -663588, -644357, -625488, -606969, -588787,
    -570929, -553385, -536143, -519193, -502526, -486133, -470003, -454130,
    -438504, -423120, -407968, -393042, -378336, -363843, -349557, -335472,
    -321583, -307884, -294371, -281037, -267879, -254892, -242071, -229413,
    -216913, -204567, -192371, -180323, -168418, -156653, -145025, -133531,
    -122167, -110931, -99820, -88831, -77961, -67208, -56570, -46043,
    -35627, -25317, -15113, -5012, 4988, 14889, 24693, 34402,
    44017, 53541, 62975, 72321, 81580, 90755, 99846, 108855,
    117784, 126633, 135405, 144101, 152722, 161269, 169743, 178147,
    186480, 194745, 202941, 211071, 219136, 227136, 235073, 242947,
    250759, 258511, 266204, 273837, 281413, 288932, 296395, 303802,
    311155, 318454, 325701, 332895, 340038, 347130, 354172, 361165,
    368110, 375006, 381856, 388658, 395415, 402127, 408793, 415416,
    421995, 428531, 435024, 441476, 447886, 454256, 460585, 466874,
    473124, 479335, 485508, 491643, 497741, 503802, 509826, 515814,
    521766, 527683, 533566, 539414, 545228, 551008, 556755, 562469,
    568151, 573801, 579419, 585006, 590561, 596086, 601580, 607045,
    612480, 617885, 623262, 628609, 633928, 639219, 644483, 649718,
    654926, 660108, 665262, 670391, 675493, 680569, 685619, 690645
  >>

RECURSIVE LongDivision(_, _, _, _)
\* acc followed by the next `digits` decimals of rem / den
LongDivision(acc, rem, den, digits) ==
  IF digits = 0 THEN acc
  ELSE LongDivision(acc * 10 + (rem * 10) \div den, (rem * 10) % den, den,
                    digits - 1)

\* floor(10^6 * ((17.625 * dew) / (243.04 + dew) - (17.625 * temp) / (243.04 + temp)))
Quotient(num, den) == LongDivision(num \div den, num % den, den, 6)

\* the exponent of the inverse ratio, temperature over dew point: C21 fails
\* with it
MagnusExponentInverse(temp, dew) ==
  Quotient(5354475 * (temp - dew), 2 * (6076 + 25 * dew) * (6076 + 25 * temp))

MagnusExponent(temp, dew) ==
  Quotient(5354475 * (dew - temp), 2 * (6076 + 25 * dew) * (6076 + 25 * temp))

\* Math.round(100 * (Math.exp(g(dew)) / Math.exp(g(temp)))), up to 200
percentOf(z) == Cardinality({h \in 1..Len(LnThreshold) : z >= LnThreshold[h]})

roundedPercent(temp, dew) == percentOf(MagnusExponent(temp, dew))

\* a calculator that tests !dewPoint and so takes a dew point of 0 for a
\* missing one: C9 fails with it
calculateHumidityFalsy(temp, dewPoint) ==
  IF IsNull(temp) \/ IsNull(dewPoint) \/ dewPoint = Some(0) THEN Null
  ELSE Some(roundedPercent(Val(temp), Val(dewPoint)))

\* a calculateHumidity without the typeof test, in which the arithmetic
\* takes null for 0: C19 fails with it
calculateHumidityCoerced(temp, dewPoint) ==
  Some(roundedPercent(IF IsNull(temp) THEN 0 ELSE Val(temp),
                      IF IsNull(dewPoint) THEN 0 ELSE Val(dewPoint)))

\* calculateHumidity: null unless both arguments are numbers
calculateHumidity(temp, dewPoint) ==
  IF IsNull(temp) \/ IsNull(dewPoint) THEN Null
  ELSE Some(roundedPercent(Val(temp), Val(dewPoint)))

\* String(cached.metar) from the first "METAR" on
FromOrAll(s, idx) == IF idx > 0 THEN From(s, idx) ELSE s

rawMetarOf(metar) == FromOrAll(metar, indexOf(metar, "METAR"))

(***************************************************************************)
(* Bounds of the model and the reports the upstream source returns.        *)
(***************************************************************************)
\* request handlers that can be in flight at once
NumRequests == 2

\* the clock stops after this many steps of Tick
MaxTicks == 2

CACHE_MIN_TTL_MS == 30 * 60 * 1000

\* one step of the clock: half the freshness window
Tick == CACHE_MIN_TTL_MS \div 2

Requests == 1..NumRequests

ReportQ == "METAR SBRP 201800Z 09008KT 9999 FEW020 24/18 Q1015"

\* a line with the prefix the provider puts before the report
ReportA == "2024110312 - METAR SBRP 031200Z VRB03KT CAVOK M05/M08 A2992="

ReportBoth == "METAR SBRP 201900Z 18012G25KT 4000 -RA BKN030CB 02/00 Q1009 A2980"

ReportZero == "METAR SBRP 202000Z 00000KT 9999 00/M01 Q1020"

ReportNoTemp == "METAR SBRP 202100Z 09008KT 9999"

\* the response bodies of the provider: the first line is the report
Bodies ==
  {ReportBoth \o "\n" \o ReportQ, ReportA, ReportZero, ReportNoTemp, ""}

\* the statuses of a response that is not ok
UpstreamErrors == {503}

\* the first lines of the bodies, and what is left of them from "METAR" on
Lines == {FirstLine(d) : d \in Bodies}

\* the texts the decoder is applied to
Texts == Lines \cup {rawMetarOf(l) : l \in Lines} \cup {ReportQ}

\* FirstLine, rawMetarOf and the two parseMetar over the texts of the model,
\* computed once
FirstLineOf == [d \in Bodies |-> FirstLine(d)]

RawMetarOf == [l \in Lines |-> rawMetarOf(l)]

ParseMetarOf == [t \in Texts |-> parseMetar(t)]

ParseMetarLocalOf == [t \in Texts |-> withLocalTime(ParseMetarOf[t])]

(***************************************************************************)
(* The state.                                                              *)
(***************************************************************************)
VARIABLES
  route,        \* "normalize": lines 1-365, "cors": lines 367-689
  vercel,       \* process.env.VERCEL === "1"
  cached,       \* the entry, Null or Some(entry)
  cachedMetar,  \* the stored report, Null or Some(string)
  cachedAt,     \* the fetch timestamp, ms
  file,         \* data/weather-cache.json: Null or Some(snapshot)
  bootSave,     \* the write started by the normalization at load, if any
  now,          \* Date.now()
  req,          \* the handlers: where each is and its locals
  tz,           \* the time zone of the process (TZ, or the host's zone)
  arg,          \* the argument of the function called on its own
  ret           \* what its calls returned, in order

vars ==
  <<route, vercel, cached, cachedMetar, cachedAt, file, bootSave, now, req,
    tz, arg, ret>>

NoResponse ==
  [status |-> 0, cachedTag |-> Null, body |-> Null, error |-> Null,
   metar |-> Null, upstream |-> Null, message |-> Null]

\* a handler and its locals; shared tells that its local `result` is the
\* object the module variable `cached` refers to (cached = result)
Idle ==
  [pc |-> "idle", force |-> FALSE, kind |-> "none", metar |-> Null,
   result |-> Null, shared |-> FALSE, payload |-> Null, resp |-> NoResponse]

(***************************************************************************)
(* JavaScript truthiness and ||                                            *)
(***************************************************************************)
\* a string that may be null: truthy when it is a non-empty string
TruthyStr(o) == ~IsNull(o) /\ Val(o) # ""

\* a number that may be null: truthy when it is a number other than 0
TruthyNum(o) == ~IsNull(o) /\ Val(o) # 0

\* a || b for strings
OrStr(a, b) == IF TruthyStr(a) THEN a ELSE b

\* a || b for numbers
OrNum(a, b) == IF TruthyNum(a) THEN a ELSE b

\* a || b for objects and arrays (truthy unless null)
OrObj(a, b) == IF ~IsNull(a) THEN a ELSE b

\* now.toLocaleTimeString("pt-BR", {hour: "2-digit", minute: "2-digit"}) on a
\* server running on UTC
timeString(ms) ==
  Pad2((ms \div (60 * 60 * 1000)) % 24) \o ":" \o Pad2((ms \div (60 * 1000)) % 60)

(***************************************************************************)
(* The cache: normalization, snapshot, load.                               *)
(***************************************************************************)
\* the entry made of an observation and of the fields the handler adds
entryOf(parsed, metar, temperature, dewPoint, humidity, updatedAt) ==
  parsed @@ [metar |-> metar, temperature |-> temperature, dewPoint |-> dewPoint,
             humidity |-> humidity, updatedAt |-> updatedAt]

\* the entry written before the parsed fields existed, from its decode
legacyFrom(metar, parsed, ms) ==
  entryOf(EmptyObservation, Some(metar), parsed.temperatureC, parsed.dewPointC,
          calculateHumidity(parsed.temperatureC, parsed.dewPointC),
          Some(timeString(ms)))

LegacyEntry(metar, ms) == legacyFrom(metar, ParseMetarOf[metar], ms)

\* if (own == null && parsed != null) own = parsed
filled(own, parsed) == IF IsNull(own) /\ ~IsNull(parsed) THEN parsed ELSE own

\* if (cached.humidity == null && typeof temperature === "number" && ...)
humidityFilled(humidity, temperature, dewPoint) ==
  IF IsNull(humidity) /\ ~IsNull(temperature) /\ ~IsNull(dewPoint)
  THEN calculateHumidity(temperature, dewPoint) ELSE humidity

\* the merge into the entry c of the fields parsedFields decoded from rawMetar
Normalized(c, rawMetar, parsedFields) ==
  [c EXCEPT
     !.raw = OrStr(c.raw, OrStr(parsedFields.raw, Some(rawMetar))),
     !.station = OrStr(c.station, parsedFields.station),
     !.obsTime = OrStr(c.obsTime, parsedFields.obsTime),
     !.wind = OrObj(c.wind, parsedFields.wind),
     !.visibility = OrStr(c.visibility, parsedFields.visibility),
     !.clouds = OrObj(c.clouds, parsedFields.clouds),
     !.weather = OrObj(c.weather, parsedFields.weather),
     !.temperature = filled(c.temperature, parsedFields.temperatureC),
     !.dewPoint = filled(c.dewPoint, parsedFields.dewPointC),
     !.qnh_hpa = IF TruthyNum(parsedFields.qnh_hpa)
                 THEN OrNum(c.qnh_hpa, parsedFields.qnh_hpa) ELSE c.qnh_hpa,
     !.alt_inhg = IF TruthyStr(parsedFields.alt_inhg)
                  THEN OrStr(c.alt_inhg, parsedFields.alt_inhg) ELSE c.alt_inhg,
     !.humidity = humidityFilled(c.humidity,
                                 filled(c.temperature, parsedFields.temperatureC),
                                 filled(c.dewPoint, parsedFields.dewPointC))]

\* the merge into the entry c of the decode of rawMetar
normalizedFrom(c, rawMetar) == Normalized(c, rawMetar, ParseMetarOf[rawMetar])

\* if (cached.metar) { ... merge ... }
NormalizeOnRead(c) ==
  IF ~IsNull(c) /\ TruthyStr(Val(c).metar)
  THEN Some(normalizedFrom(Val(c), RawMetarOf[Val(Val(c).metar)]))
  ELSE c

\* the payload of saveCacheToFile
Snapshot(c, m, at) == [cached |-> c, cachedMetar |-> m, cachedAt |-> at]

\* the module variables and the write in flight
Module(c, m, at, save) ==
  [cached |-> c, cachedMetar |-> m, cachedAt |-> at, bootSave |-> save]

\* the normalization at load of the entry c read from the file
loadedMerged(c, m, at) == Module(c, m, at, Some(Snapshot(c, m, at)))

\* the module after parsed.cached || null, parsed.cachedMetar || null and
\* parsed.cachedAt || 0 gave c, m and at
loadedFrom(rt, c, m, at) ==
  IF rt = "normalize" /\ ~IsNull(c) /\ TruthyStr(Val(c).metar)
  THEN loadedMerged(NormalizeOnRead(c), IF TruthyStr(m) THEN m ELSE Val(c).metar, at)
  ELSE Module(c, m, at, Null)

\* a file that cannot be read or whose text JSON.parse rejects, such as the
\* text a write left when the process died before it had finished
Unparseable == Some([text |-> "{"])

\* the file exists and its text is the JSON of a snapshot
IsSnapshot(f) == ~IsNull(f) /\ f # Unparseable

\* a load that leaves cachedAt as it was declared: C16 fails with it
LoadedUnstamped(rt, f) ==
  IF ~IsSnapshot(f) THEN Module(Null, Null, 0, Null)
  ELSE loadedFrom(rt, Val(f).cached, OrStr(Val(f).cachedMetar, Null), 0)

\* what the module holds after it has read the file f: existsSync is false,
\* or readFileSync or JSON.parse throws before the first assignment, or the
\* three variables are assigned
Loaded(rt, f) ==
  IF ~IsSnapshot(f) THEN Module(Null, Null, 0, Null)
  ELSE loadedFrom(rt, Val(f).cached, OrStr(Val(f).cachedMetar, Null), Val(f).cachedAt)

\* the snapshot files a process can find at its first start: none, or one
\* written before the parsed fields existed
FirstFiles == {Null, Some(Snapshot(Some(LegacyEntry(ReportA, 0)), Null, 0))}

\* the module variables are those of mod
Holds(mod) ==
  /\ cached = mod.cached
  /\ cachedMetar = mod.cachedMetar
  /\ cachedAt = mod.cachedAt
  /\ bootSave = mod.bootSave

Init ==
  /\ route \in {"normalize", "cors"}
  /\ vercel \in BOOLEAN
  /\ file \in FirstFiles
  /\ Holds(Loaded(route, file))
  /\ now = Tick
  /\ req = [r \in Requests |-> Idle]
  /\ tz = "UTC"
  /\ arg = Null
  /\ ret = <<>>

(***************************************************************************)
(* The GET handler, one action per stretch of code between two awaits.     *)
(***************************************************************************)
\* a hit check that takes an age of exactly the window for Fresh: C13 fails
\* with it
ServeFromCacheInclusive(force, c, at, nowTs) ==
  ~force /\ ~IsNull(c) /\ nowTs - at <= CACHE_MIN_TTL_MS

\* a hit check that does not read the force flag: C1 fails with it
ServeFromCacheForced(force, c, at, nowTs) ==
  ~IsNull(c) /\ nowTs - at < CACHE_MIN_TTL_MS

\* !force && cached && nowTs - cachedAt < CACHE_MIN_TTL_MS
ServeFromCache(force, c, at, nowTs) ==
  ~force /\ ~IsNull(c) /\ nowTs - at < CACHE_MIN_TTL_MS

\* !parsed || !parsed.temperatureC
Malformed(parsed) == ~TruthyNum(parsed.temperatureC)

\* the object `result`
resultOf(metar, parsed, ms) ==
  entryOf(parsed, Some(metar), parsed.temperatureC, parsed.dewPointC,
          calculateHumidity(parsed.temperatureC, parsed.dewPointC),
          Some(timeString(ms)))

\* a decision that keeps the entry of the refresh that was processed first:
\* C25 fails with it
DecisionKeeping(rt, metar, c, m) == IF ~IsNull(c) THEN "touch" ELSE "replace"

\* what the handler does with an accepted report: "replace" the entry or
\* "touch" the timestamp
Decision(rt, metar, c, m) ==
  IF rt = "cors" THEN "replace"
  ELSE IF metar # "" /\ Some(metar) # m THEN "replace"
  ELSE IF ~IsNull(c) THEN "touch"
  ELSE "replace"

\* a replacement that does not stamp the entry it assigns: C14 fails with it
CommittedUnstamped(kind, result, metar, c, m, nowTs) ==
  IF kind = "replace"
  THEN [cached |-> Some(result), cachedMetar |-> Some(metar), cachedAt |-> 0]
  ELSE [cached |-> c, cachedMetar |-> m, cachedAt |-> nowTs]

\* a replacement that assigns the entry and leaves cachedMetar to a later
\* step: C7 fails with it
CommittedEntryOnly(kind, result, metar, c, m, nowTs) ==
  IF kind = "replace"
  THEN [cached |-> Some(result), cachedMetar |-> m, cachedAt |-> nowTs]
  ELSE [cached |-> c, cachedMetar |-> m, cachedAt |-> nowTs]

\* the module variables after an accepted report
Committed(kind, result, metar, c, m, nowTs) ==
  IF kind = "replace"
  THEN [cached |-> Some(result), cachedMetar |-> Some(metar), cachedAt |-> nowTs]
  ELSE [cached |-> c, cachedMetar |-> m, cachedAt |-> nowTs]

Response200(tag, entry) ==
  [NoResponse EXCEPT !.status = 200, !.cachedTag = Some(tag), !.body = entry]

\* the error text of the 422 body, which differs between the two routes
Error422 ==
  IF route = "normalize" THEN "METAR não encontrado ou formato inesperado"
  ELSE "METAR inválido ou ausente"

Response422(metar) ==
  [NoResponse EXCEPT !.status = 422, !.error = Some(Error422),
                     !.metar = Some(metar)]

Response502(status) ==
  [NoResponse EXCEPT !.status = 502, !.error = Some("Falha ao buscar dados"),
                     !.upstream = Some(status)]

Response500 ==
  [NoResponse EXCEPT !.status = 500, !.error = Some("Erro interno"),
                     !.message = Some("Error")]

\* the cache hit of the route with normalize-on-read: the entry is merged in
\* place to normalized, which the handlers whose `result` is that object see
\* too, and saveCacheToFile is awaited
HitNormalized(r, force, normalized) ==
  /\ cached' = normalized
  /\ req' = [q \in Requests |->
               IF q = r
               THEN [Idle EXCEPT !.pc = "saving", !.force = force, !.kind = "hit",
                                 !.payload = Some(Snapshot(normalized, cachedMetar,
                                                           cachedAt))]
               ELSE IF req[q].shared THEN [req[q] EXCEPT !.result = normalized]
               ELSE req[q]]

\* the cache hit answered at once
HitServed(r, force) ==
  /\ cached' = cached
  /\ req' = [req EXCEPT ![r] =
               [Idle EXCEPT !.pc = "done", !.force = force, !.kind = "hit",
                            !.resp = Response200(TRUE, cached)]]

\* a handler that issues no call of its own while another call is in flight
\* and takes part in that one: C24 fails with it
FetchCoalesced(r, force) ==
  /\ cached' = cached
  /\ req' = [req EXCEPT ![r] =
               [Idle EXCEPT !.pc = IF \E q \in Requests : req[q].pc = "fetching"
                                   THEN "joined" ELSE "fetching",
                            !.force = force, !.kind = "refresh"]]

\* await fetch(baseURL)
FetchStarted(r, force) ==
  /\ cached' = cached
  /\ req' = [req EXCEPT ![r] =
               [Idle EXCEPT !.pc = "fetching", !.force = force, !.kind = "refresh"]]

\* an arrival whose cache hit renews the timestamp of the entry: C26 fails
\* with it
GetStartSliding(r, force) ==
  /\ req[r].pc = "idle"
  /\ IF ServeFromCache(force, cached, cachedAt, now)
     THEN /\ cachedAt' = now
          /\ IF route = "normalize" /\ TruthyStr(Val(cached).metar)
             THEN HitNormalized(r, force, NormalizeOnRead(cached))
             ELSE HitServed(r, force)
     ELSE cachedAt' = cachedAt /\ FetchStarted(r, force)
  /\ UNCHANGED <<tz, arg, ret, route, vercel, cachedMetar, file, bootSave, now>>

\* the request arrives: the code up to the first await
GetStart(r, force) ==
  /\ req[r].pc = "idle"
  /\ IF ServeFromCache(force, cached, cachedAt, now)
     THEN IF route = "normalize" /\ TruthyStr(Val(cached).metar)
          THEN HitNormalized(r, force, NormalizeOnRead(cached))
          ELSE HitServed(r, force)
     ELSE FetchStarted(r, force)
  /\ UNCHANGED <<tz, arg, ret, route, vercel, cachedMetar, cachedAt, file, bootSave, now>>

\* fetch resolves with a response that is ok
FetchOk(r) ==
  /\ req[r].pc = "fetching"
  /\ req' = [req EXCEPT ![r].pc = "reading"]
  /\ UNCHANGED <<tz, arg, ret, route, vercel, cached, cachedMetar, cachedAt, file, bootSave, now>>

\* an upstream failure that drops the entry it could not refresh: C27 fails
\* with it
FetchNotOkClearing(r, status) ==
  /\ req[r].pc = "fetching"
  /\ req' = [req EXCEPT ![r].pc = "done", ![r].resp = Response502(status)]
  /\ cached' = Null
  /\ cachedMetar' = Null
  /\ cachedAt' = 0
  /\ UNCHANGED <<tz, arg, ret, route, vercel, file, bootSave, now>>

\* fetch resolves with a response that is not ok
FetchNotOk(r, status) ==
  /\ req[r].pc = "fetching"
  /\ req' = [req EXCEPT ![r].pc = "done", ![r].resp = Response502(status)]
  /\ UNCHANGED <<tz, arg, ret, route, vercel, cached, cachedMetar, cachedAt, file, bootSave, now>>

\* a catch block that answers the bare status, without a body: C15 fails
\* with it
ThrownBare(r) ==
  /\ req[r].pc \in {"fetching", "reading"}
  /\ req' = [req EXCEPT ![r].pc = "done",
                        ![r].resp = [NoResponse EXCEPT !.status = 500]]
  /\ UNCHANGED <<tz, arg, ret, route, vercel, cached, cachedMetar, cachedAt, file, bootSave, now>>

\* fetch or response.text() rejects: the catch block
Thrown(r) ==
  /\ req[r].pc \in {"fetching", "reading"}
  /\ req' = [req EXCEPT ![r].pc = "done", ![r].resp = Response500]
  /\ UNCHANGED <<tz, arg, ret, route, vercel, cached, cachedMetar, cachedAt, file, bootSave, now>>

\* a rejection that drops the entry it could not refresh: C4 fails with it
RejectClearing(r, metar) ==
  /\ req' = [req EXCEPT ![r].pc = "done", ![r].metar = Some(metar),
                        ![r].resp = Response422(metar)]
  /\ cached' = Null
  /\ cachedMetar' = Null
  /\ cachedAt' = 0

\* the report is rejected: the 422 response, nothing is assigned
Reject(r, metar) ==
  /\ req' = [req EXCEPT ![r].pc = "done", ![r].metar = Some(metar),
                        ![r].resp = Response422(metar)]
  /\ UNCHANGED <<cached, cachedMetar, cachedAt>>

\* the module variables become those of after, and saveCacheToFile is awaited
Commit(r, metar, result, kind, after) ==
  /\ cached' = after.cached
  /\ cachedMetar' = after.cachedMetar
  /\ cachedAt' = after.cachedAt
  /\ req' = [q \in Requests |->
               IF q = r
               THEN [req[r] EXCEPT
                       !.pc = "saving", !.kind = kind, !.metar = Some(metar),
                       !.result = IF kind = "replace" THEN Some(result) ELSE Null,
                       !.shared = (kind = "replace"),
                       !.payload = Some(Snapshot(after.cached, after.cachedMetar,
                                                 after.cachedAt))]
               ELSE IF kind = "replace" THEN [req[q] EXCEPT !.shared = FALSE]
               ELSE req[q]]

\* the report is accepted with the decision kind
Accept(r, metar, result, kind) ==
  Commit(r, metar, result, kind,
         Committed(kind, result, metar, cached, cachedMetar, now))

\* the code from parseMetar(metar) on
Handle(r, metar, parsed) ==
  IF Malformed(parsed) THEN Reject(r, metar)
  ELSE Accept(r, metar, resultOf(metar, parsed, now),
              Decision(route, metar, cached, cachedMetar))

\* the code from data.split("\n")[0] on
HandleLine(r, metar) ==
  Handle(r, metar, IF route = "normalize" THEN ParseMetarOf[metar]
                   ELSE ParseMetarLocalOf[metar])

\* response.text() resolves with data: the code up to await saveCacheToFile()
\* or up to the 422 response
BodyRead(r, data) ==
  /\ req[r].pc = "reading"
  /\ HandleLine(r, FirstLineOf[data])
  /\ UNCHANGED <<tz, arg, ret, route, vercel, file, bootSave, now>>

\* the file after a write of payload that ended well (written) or not
Written(payload, f, written) == IF ~vercel /\ written THEN payload ELSE f

\* a save whose write failure escapes to the handler's catch block: C11
\* fails with it
SaveReturnsThrowing(r, written) ==
  /\ req[r].pc = "saving"
  /\ file' = Written(req[r].payload, file, written)
  /\ req' = [req EXCEPT ![r].pc = "done", ![r].payload = Null,
                        ![r].shared = FALSE,
                        ![r].resp = IF ~vercel /\ ~written THEN Response500
                                    ELSE IF req[r].kind = "replace"
                                    THEN Response200(FALSE, req[r].result)
                                    ELSE Response200(TRUE, cached)]
  /\ UNCHANGED <<tz, arg, ret, route, vercel, cached, cachedMetar, cachedAt, bootSave, now>>

\* saveCacheToFile returns and the handler answers: {cached: false, ...result}
\* after a replacement, {cached: true, ...cached} otherwise
\* a save that waits until no other handler is waiting for its write: C28
\* fails with it
SaveReturnsAlone(r, written) ==
  /\ req[r].pc = "saving"
  /\ \A q \in Requests \ {r} : req[q].pc # "saving"
  /\ file' = Written(req[r].payload, file, written)
  /\ req' = [req EXCEPT ![r].pc = "done", ![r].payload = Null,
                        ![r].shared = FALSE,
                        ![r].resp = IF req[r].kind = "replace"
                                    THEN Response200(FALSE, req[r].result)
                                    ELSE Response200(TRUE, cached)]
  /\ UNCHANGED <<tz, arg, ret, route, vercel, cached, cachedMetar, cachedAt, bootSave, now>>

SaveReturns(r, written) ==
  /\ req[r].pc = "saving"
  /\ file' = Written(req[r].payload, file, written)
  /\ req' = [req EXCEPT ![r].pc = "done", ![r].payload = Null,
                        ![r].shared = FALSE,
                        ![r].resp = IF req[r].kind = "replace"
                                    THEN Response200(FALSE, req[r].result)
                                    ELSE Response200(TRUE, cached)]
  /\ UNCHANGED <<tz, arg, ret, route, vercel, cached, cachedMetar, cachedAt, bootSave, now>>

\* the write started at load returns
BootSaveReturns(written) ==
  /\ ~IsNull(bootSave)
  /\ file' = Written(bootSave, file, written)
  /\ bootSave' = Null
  /\ UNCHANGED <<tz, arg, ret, route, vercel, cached, cachedMetar, cachedAt, now, req>>

\* the caller has its response
Deliver(r) ==
  /\ req[r].pc = "done"
  /\ req' = [req EXCEPT ![r] = Idle]
  /\ UNCHANGED <<tz, arg, ret, route, vercel, cached, cachedMetar, cachedAt, file, bootSave, now>>

\* time passes
Advance ==
  /\ now < MaxTicks * Tick
  /\ now' = now + Tick
  /\ UNCHANGED <<tz, arg, ret, route, vercel, cached, cachedMetar, cachedAt, file, bootSave, req>>

\* the module variables become those of mod
Becomes(mod) ==
  /\ cached' = mod.cached
  /\ cachedMetar' = mod.cachedMetar
  /\ cachedAt' = mod.cachedAt
  /\ bootSave' = mod.bootSave

\* the process restarts: the module is loaded again from the file, and the
\* handlers that were in flight are gone
Restart ==
  /\ Becomes(Loaded(route, file))
  /\ req' = [r \in Requests |-> Idle]
  /\ UNCHANGED <<tz, arg, ret, route, vercel, file, now>>

Next ==
  \/ \E r \in Requests, force \in BOOLEAN : GetStart(r, force)
  \/ \E r \in Requests : FetchOk(r)
  \/ \E r \in Requests, status \in UpstreamErrors : FetchNotOk(r, status)
  \/ \E r \in Requests : Thrown(r)
  \/ \E r \in Requests, data \in Bodies : BodyRead(r, data)
  \/ \E r \in Requests, written \in BOOLEAN : SaveReturns(r, written)
  \/ \E written \in BOOLEAN : BootSaveReturns(written)
  \/ \E r \in Requests : Deliver(r)
  \/ Advance
  \/ Restart

Spec == Init /\ [][Next]_vars

\* a first start with no snapshot file: the Empty cache
InitEmpty == Init /\ IsNull(file)

SpecEmpty == InitEmpty /\ [][Next]_vars

\* the files a process can find when it starts: also one it cannot parse
StartFiles == FirstFiles \cup {Unparseable}

InitStart ==
  /\ route \in {"normalize", "cors"}
  /\ vercel \in BOOLEAN
  /\ file \in StartFiles
  /\ Holds(Loaded(route, file))
  /\ now = Tick
  /\ req = [r \in Requests |-> Idle]
  /\ tz = "UTC"
  /\ arg = Null
  /\ ret = <<>>

\* the process dies while fsp.writeFile is writing the snapshot, which leaves
\* a truncated file, and starts again
Crash ==
  /\ ~vercel
  /\ ~IsNull(bootSave) \/ \E r \in Requests : req[r].pc = "saving"
  /\ file' = Unparseable
  /\ Becomes(Loaded(route, Unparseable))
  /\ req' = [r \in Requests |-> Idle]
  /\ UNCHANGED <<tz, arg, ret, route, vercel, now>>

NextStart ==
  \/ \E r \in Requests, force \in BOOLEAN : GetStart(r, force)
  \/ \E r \in Requests : FetchOk(r)
  \/ \E r \in Requests, status \in UpstreamErrors : FetchNotOk(r, status)
  \/ \E r \in Requests : Thrown(r)
  \/ \E r \in Requests, data \in Bodies : BodyRead(r, data)
  \/ \E r \in Requests, written \in BOOLEAN : SaveReturns(r, written)
  \/ \E written \in BOOLEAN : BootSaveReturns(written)
  \/ \E r \in Requests : Deliver(r)
  \/ Advance
  \/ Restart
  \/ Crash

SpecStart == InitStart /\ [][NextStart]_vars

\* a process that keeps running, in which every upstream call and every
\* snapshot write that a handler awaits eventually returns or fails
NextLive ==
  \/ \E r \in Requests, force \in BOOLEAN : GetStart(r, force)
  \/ \E r \in Requests : FetchOk(r)
  \/ \E r \in Requests, status \in UpstreamErrors : FetchNotOk(r, status)
  \/ \E r \in Requests : Thrown(r)
  \/ \E r \in Requests, data \in Bodies : BodyRead(r, data)
  \/ \E r \in Requests, written \in BOOLEAN : SaveReturns(r, written)
  \/ \E written \in BOOLEAN : BootSaveReturns(written)
  \/ \E r \in Requests : Deliver(r)
  \/ Advance

\* what the handler r awaits settles
Settles(r) ==
  \/ FetchOk(r)
  \/ \E status \in UpstreamErrors : FetchNotOk(r, status)
  \/ Thrown(r)
  \/ \E data \in Bodies : BodyRead(r, data)
  \/ \E written \in BOOLEAN : SaveReturns(r, written)

SpecLive ==
  /\ Init
  /\ [][NextLive]_vars
  /\ \A r \in Requests : WF_vars(Settles(r))

(***************************************************************************)
(* parseMetar and calculateHumidity called on their own.                   *)
(***************************************************************************)
\* the module as declared, with no handler running
NoServer ==
  /\ vercel = FALSE
  /\ file = Null
  /\ Holds(Loaded(route, Null))
  /\ now = Tick
  /\ req = [r \in Requests |-> Idle]

MaxDecodes == 2

\* a group of the grammar: absent, or the token tok
Optional(tok) == {Null, Some(tok)}

\* the lines made of the groups of the grammar, each present or absent, in
\* the order of a report, bare or between white space
GroupChoices ==
  [station : {Null, Some("METAR SBRP"), Some("METAR SNRP")},
   time : Optional("201800Z"), wind : Optional("09008KT"),
   vis : Optional("9999"), wx : Optional("-RA"), cloud : Optional("FEW020"),
   temp : Optional("24/18"), pres : Optional("Q1015"), pad : {"", " "}]

RECURSIVE JoinTokens(_)
JoinTokens(tokens) ==
  IF tokens = <<>> THEN ""
  ELSE IF Len(tokens) = 1 THEN Val(tokens[1])
  ELSE Val(tokens[1]) \o " " \o JoinTokens(Tail(tokens))

Present(o) == ~IsNull(o)

\* the text of the line with the groups g
LineOf(g) ==
  g.pad \o JoinTokens(SelectSeq(<<g.station, g.time, g.wind, g.vis, g.wx,
                                   g.cloud, g.temp, g.pres>>, Present))
        \o g.pad

InitDecode ==
  /\ route \in {"normalize", "cors"}
  /\ tz \in Zones
  /\ arg \in {Some(g) : g \in GroupChoices}
  /\ ret = <<>>
  /\ NoServer

\* parseMetar(arg) is called while the clock of the process shows month
Decode(month) ==
  /\ Len(ret) < MaxDecodes
  /\ ret' = Append(ret, [month |-> month,
                         value |-> parseMetarAt(route, tz, month, LineOf(Val(arg)))])
  /\ UNCHANGED <<tz, arg, route, vercel, cached, cachedMetar, cachedAt, file,
                 bootSave, now, req>>

NextDecode == \E month \in Months : Decode(month)

SpecDecode == InitDecode /\ [][NextDecode]_vars

\* a side of the temperature group: an optional M and a number written with
\* one or two digits
Sides ==
  [neg : BOOLEAN, n : {0, 5, 8, 9}, digits : {1, 2}]
    \cup [neg : BOOLEAN, n : {18, 24, 99}, digits : {2}]

SideText(a) ==
  (IF a.neg THEN "M" ELSE "")
    \o (IF a.digits = 2 THEN Pad2(a.n) ELSE DigitStr(a.n))

SideValue(a) == IF a.neg THEN 0 - a.n ELSE a.n

\* the lines with the temperature group of the sides a and b, alone in the
\* line or among the other groups of a report
Among(full, tok) == IF full THEN Some(tok) ELSE Null

TempDewChoices ==
  {[station |-> Some("METAR SBRP"), time |-> Among(full, "201800Z"),
    wind |-> Among(full, "09008KT"), vis |-> Among(full, "9999"), wx |-> Null,
    cloud |-> Among(full, "FEW020"),
    temp |-> Some(SideText(ab[1]) \o "/" \o SideText(ab[2])),
    pres |-> Among(full, "Q1015"), pad |-> "", sides |-> ab] :
     ab \in Sides \X Sides, full \in BOOLEAN}

InitTempDew ==
  /\ route \in {"normalize", "cors"}
  /\ tz = "UTC"
  /\ arg \in {Some(g) : g \in TempDewChoices}
  /\ ret = <<>>
  /\ NoServer

SpecTempDew == InitTempDew /\ [][NextDecode]_vars

\* the arguments of calculateHumidity: a number of the grammar's range or
\* null, for each
Temperatures == {Null} \cup {Some(t) : t \in -99..99}

\* the temperatures and dew points of the reports of the model
ReportValues == {-8, -5, -1, 0, 2, 18, 24}

HumidityArguments ==
  {<<t, t>> : t \in Temperatures}
    \cup {<<Null, t>> : t \in Temperatures} \cup {<<t, Null>> : t \in Temperatures}
    \cup {<<Some(t), Some(d)>> : t, d \in ReportValues}

InitHumidity ==
  /\ route \in {"normalize", "cors"}
  /\ tz = "UTC"
  /\ arg \in {Some(a) : a \in HumidityArguments}
  /\ ret = <<>>
  /\ NoServer

\* calculateHumidity(temp, dewPoint) is called
Compute ==
  /\ ret = <<>>
  /\ ret' = <<calculateHumidity(Val(arg)[1], Val(arg)[2])>>
  /\ UNCHANGED <<tz, arg, route, vercel, cached, cachedMetar, cachedAt, file,
                 bootSave, now, req>>

NextHumidity == Compute

SpecHumidity == InitHumidity /\ [][NextHumidity]_vars

\* writable storage (VERCEL is not "1") on which every write succeeds
InitDurable == Init /\ ~vercel

NextDurable ==
  \/ \E r \in Requests, force \in BOOLEAN : GetStart(r, force)
  \/ \E r \in Requests : FetchOk(r)
  \/ \E r \in Requests, status \in UpstreamErrors : FetchNotOk(r, status)
  \/ \E r \in Requests : Thrown(r)
  \/ \E r \in Requests, data \in Bodies : BodyRead(r, data)
  \/ \E r \in Requests : SaveReturns(r, TRUE)
  \/ BootSaveReturns(TRUE)
  \/ \E r \in Requests : Deliver(r)
  \/ Advance
  \/ Restart

SpecDurable == InitDurable /\ [][NextDurable]_vars

(***************************************************************************)
(* Properties of the cache and of the handler.                             *)
(***************************************************************************)
\* an entry exists and its age is below the freshness window
Fresh == ~IsNull(cached) /\ now - cachedAt < CACHE_MIN_TTL_MS

\* the step in which the request r arrives
Arrives(r) == req[r].pc = "idle" /\ req'[r].pc # "idle"

\* the step in which the handler r has read the body of a successful upstream
\* call; req'[r].metar is then the first line of that body
Retrieves(r) == req[r].pc = "reading" /\ ~IsNull(req'[r].metar)

\* the observation the route decodes from the line metar
Decoded(metar) ==
  IF route = "normalize" THEN ParseMetarOf[metar] ELSE ParseMetarLocalOf[metar]

\* the response of the handler r is the 200 response carrying entry
Answers200(r, tag, entry) ==
  /\ req[r].resp.status = 200
  /\ req[r].resp.cachedTag = Some(tag)
  /\ req[r].resp.body = entry

\* C1: a GET without force that arrives while an entry exists and is younger
\* than 30 minutes performs no upstream fetch and is answered from the cache
\* (status 200, tagged cached=true, carrying an entry); a GET with force
\* performs an upstream fetch in every cache state, Fresh included.
C1_FreshHitAndForcedFetch ==
  /\ [][\A r \in Requests :
          Arrives(r) =>
            IF req'[r].force THEN req'[r].pc = "fetching"
            ELSE Fresh => req'[r].kind = "hit" /\ req'[r].pc \in {"saving", "done"}]_vars
  /\ [](\A r \in Requests :
          req[r].kind = "hit" =>
            /\ req[r].pc \in {"saving", "done"}
            /\ req[r].pc = "done" =>
                 /\ req[r].resp.status = 200
                 /\ req[r].resp.cachedTag = Some(TRUE)
                 /\ ~IsNull(req[r].resp.body))

\* a forced request is fetching while the entry is Fresh, and another request
\* has been answered from the cache
C1_Witness ==
  \E r1, r2 \in Requests :
    /\ req[r1].pc = "fetching" /\ req[r1].force /\ Fresh
    /\ req[r2].pc = "done" /\ req[r2].kind = "hit" /\ ~req[r2].force
    /\ Answers200(r2, TRUE, cached)

\* C2: when a refresh retrieves a report equal to the stored RawReport, the
\* entry and the stored RawReport are left unchanged, only cachedAt advances
\* to the current time, and the response is tagged cached=true.
C2_EqualReportOnlyTouches ==
  /\ [][\A r \in Requests :
          (Retrieves(r) /\ ~IsNull(cached) /\ req'[r].metar = cachedMetar) =>
            /\ cached' = cached
            /\ cachedMetar' = cachedMetar
            /\ cachedAt' = now
            /\ req'[r].kind = "touch"]_vars
  /\ [](\A r \in Requests :
          (req[r].kind = "touch" /\ req[r].pc = "done") =>
            req[r].resp.status = 200 /\ req[r].resp.cachedTag = Some(TRUE))

\* the line metar carries a temperature/dew-point group
HasTemperature(metar) == ~IsNull(ParseMetarOf[metar].temperatureC)

\* C3: when a refresh retrieves a well-formed report that differs from the
\* stored RawReport, the entry is replaced by the entry computed from the new
\* report, the stored RawReport becomes the new report, cachedAt is the
\* current time, and the response is tagged cached=false.
C3_DifferentReportReplaces ==
  /\ [][\A r \in Requests :
          (/\ Retrieves(r)
           /\ HasTemperature(Val(req'[r].metar))
           /\ req'[r].metar # cachedMetar) =>
            /\ cached' = Some(resultOf(Val(req'[r].metar),
                                       Decoded(Val(req'[r].metar)), now))
            /\ cachedMetar' = req'[r].metar
            /\ cachedAt' = now
            /\ req'[r].kind = "replace"]_vars
  /\ [](\A r \in Requests :
          (req[r].kind = "replace" /\ req[r].pc = "done") =>
            Answers200(r, FALSE, req[r].result))

\* C4: when the upstream call succeeds but the first line of the body has no
\* temperature/dew-point group (an empty body included), the request ends
\* with status 422 carrying the retrieved text in metar, and the entry, the
\* stored RawReport, cachedAt and the snapshot file are as they were.
C4_NoTemperatureRejected ==
  [][\A r \in Requests :
       (Retrieves(r) /\ ~HasTemperature(Val(req'[r].metar))) =>
         /\ req'[r].pc = "done"
         /\ req'[r].resp.status = 422
         /\ req'[r].resp.metar = req'[r].metar
         /\ UNCHANGED <<cached, cachedMetar, cachedAt, file>>]_vars

\* a report without the group and an empty body have both been answered with
\* 422 while the entry and the snapshot file exist
C4_Witness ==
  \E r1, r2 \in Requests :
    /\ req[r1].pc = "done" /\ req[r1].resp.status = 422
    /\ req[r1].resp.metar = Some(ReportNoTemp)
    /\ req[r2].pc = "done" /\ req[r2].resp.status = 422
    /\ req[r2].resp.metar = Some("")
    /\ ~IsNull(cached) /\ ~IsNull(file)

\* C5: every retrieved report in which the decoder finds a temperature value,
\* zero included, is accepted: the entry is replaced or touched and the
\* response status is 200.
C5_FoundTemperatureAccepted ==
  /\ [][\A r \in Requests :
          (Retrieves(r) /\ HasTemperature(Val(req'[r].metar))) =>
            req'[r].pc = "saving" /\ req'[r].kind \in {"replace", "touch"}]_vars
  /\ [](\A r \in Requests :
          (req[r].pc = "done" /\ ~IsNull(req[r].metar)
             /\ HasTemperature(Val(req[r].metar))) =>
            req[r].resp.status = 200)

\* C6: every upstream failure, a fetch that rejects as well as a non-success
\* status, ends the request with status 502.
C6_UpstreamFailureIs502 ==
  [][\A r \in Requests :
       (req[r].pc = "fetching" /\ req'[r].pc = "done") =>
         req'[r].resp.status = 502]_vars

\* C7: in every reachable state where an entry exists after a refresh
\* (cachedAt is 0 until a refresh sets it), the entry's own report text
\* equals the stored RawReport, whatever the interleaving of the handlers.
C7_EntryPairedWithItsReport ==
  (~IsNull(cached) /\ cachedAt # 0) => Val(cached).metar = cachedMetar

\* two refreshes that retrieved different reports have both taken their
\* decision and are both waiting for their snapshot write
C7_Witness ==
  \E r1, r2 \in Requests :
    /\ req[r1].pc = "saving" /\ req[r1].kind = "replace"
    /\ req[r2].pc = "saving" /\ req[r2].kind = "replace"
    /\ req[r1].metar # req[r2].metar
    /\ ~IsNull(cached) /\ cachedAt # 0

\* the fields of the observation parsed that an entry keeps
DecodedFields(parsed) ==
  [station |-> parsed.station, obsTime |-> parsed.obsTime, wind |-> parsed.wind,
   visibility |-> parsed.visibility, clouds |-> parsed.clouds,
   weather |-> parsed.weather, temperature |-> parsed.temperatureC,
   dewPoint |-> parsed.dewPointC, qnh_hpa |-> parsed.qnh_hpa,
   alt_inhg |-> parsed.alt_inhg]

\* the decoded fields the entry c holds
HeldFields(c) ==
  [station |-> c.station, obsTime |-> c.obsTime, wind |-> c.wind,
   visibility |-> c.visibility, clouds |-> c.clouds, weather |-> c.weather,
   temperature |-> c.temperature, dewPoint |-> c.dewPoint,
   qnh_hpa |-> c.qnh_hpa, alt_inhg |-> c.alt_inhg]

\* C8: starting from an Empty cache, the decoded fields held in the entry are
\* the fields obtained by decoding the entry's stored RawReport, and no step
\* changes a held field while the stored RawReport stays the same.
C8_FieldsDecodeFromStoredReport ==
  /\ [](~IsNull(cached) =>
          HeldFields(Val(cached)) = DecodedFields(ParseMetarOf[Val(Val(cached).metar)]))
  /\ [][(~IsNull(cached) /\ ~IsNull(cached') /\ Val(cached').metar = Val(cached).metar)
          => HeldFields(Val(cached')) = HeldFields(Val(cached))]_vars

\* calculateHumidity returns null exactly when an argument is null
HumidityNullCases ==
  \A t, d \in {Null, Some(-5), Some(0), Some(2), Some(24)} :
    IsNull(calculateHumidity(t, d)) <=> (IsNull(t) \/ IsNull(d))

\* humidity is present in the entry c exactly when temperature and dew point are
HumidityIff(c) ==
  ~IsNull(c.humidity) <=> (~IsNull(c.temperature) /\ ~IsNull(c.dewPoint))

\* C9: in every reachable cache entry and in every 200 response, humidity is
\* non-null if and only if temperature and dew point are both non-null, and
\* the calculator returns null exactly when one of its arguments is null.
C9_HumidityIffTemperatureAndDewPoint ==
  /\ HumidityNullCases
  /\ ~IsNull(cached) => HumidityIff(Val(cached))
  /\ \A r \in Requests :
       (req[r].pc = "done" /\ req[r].resp.status = 200) =>
         HumidityIff(Val(req[r].resp.body))

\* a 200 response carries the entry of a report whose dew point is 0, and
\* the cache holds an entry
C9_Witness ==
  \E r \in Requests :
    /\ req[r].pc = "done" /\ req[r].resp.status = 200
    /\ Val(req[r].resp.body).dewPoint = Some(0)
    /\ ~IsNull(Val(req[r].resp.body).humidity)
    /\ ~IsNull(cached)

\* at most one of the two pressure fields of the record o is populated
OnePressure(o) == IsNull(o.qnh_hpa) \/ IsNull(o.alt_inhg)

\* C10: the decoder populates at most one of qnh_hpa and alt_inhg, and
\* qnh_hpa when the report has a Q-group and an A-group; in every reachable
\* cache entry at most one of the two is populated.
C10_PressureFieldsExclusive ==
  /\ \A t \in Texts : OnePressure(ParseMetarOf[t])
  /\ ParseMetarOf[ReportBoth].qnh_hpa = Some(1009)
  /\ IsNull(ParseMetarOf[ReportBoth].alt_inhg)
  /\ ~IsNull(cached) => OnePressure(Val(cached))

\* the entry comes from a report with an A-group only, and it replaced an
\* entry that came from a report with a Q-group, still held by the snapshot
C10_Witness ==
  /\ ~IsNull(cached) /\ ~IsNull(Val(cached).alt_inhg)
  /\ ~IsNull(file) /\ ~IsNull(Val(file).cached)
  /\ ~IsNull(Val(Val(file).cached).qnh_hpa)

\* the step in which saveCacheToFile returns to the handler r
SaveEnds(r) == req[r].pc = "saving" /\ req'[r].pc = "done"

\* C11: whether the snapshot write succeeds or fails, the step in which
\* saveCacheToFile returns leaves the entry, the stored RawReport and
\* cachedAt as the refresh set them and answers the same 200 response:
\* {cached: false, ...result} after a replacement, {cached: true, ...cached}
\* otherwise.
C11_WriteFailureKeepsUpdate ==
  [][\A r \in Requests :
       SaveEnds(r) =>
         /\ UNCHANGED <<cached, cachedMetar, cachedAt>>
         /\ req'[r].resp = IF req[r].kind = "replace"
                           THEN Response200(FALSE, req[r].result)
                           ELSE Response200(TRUE, cached)]_vars

\* with writable storage a replacing refresh has been answered with 200
\* while no snapshot file exists: its write failed, and the entry it
\* assigned is in memory
C11_Witness ==
  \E r \in Requests :
    /\ ~vercel /\ IsNull(file)
    /\ req[r].pc = "done" /\ req[r].kind = "replace"
    /\ req[r].resp.status = 200
    /\ cached = req[r].result /\ cachedMetar = req[r].metar /\ cachedAt = now

\* no handler is between its arrival and its response, and the write started
\* at load has returned
Quiescent ==
  /\ \A r \in Requests : req[r].pc \in {"idle", "done"}
  /\ IsNull(bootSave)

\* C12: with writable storage and no write failure, once every in-flight
\* request has completed, the snapshot file holds the cached, cachedMetar
\* and cachedAt of memory (or there is no file and nothing was ever cached).
C12_SnapshotEqualsMemoryAtRest ==
  Quiescent =>
    \/ file = Some(Snapshot(cached, cachedMetar, cachedAt))
    \/ IsNull(file) /\ IsNull(cached) /\ IsNull(cachedMetar) /\ cachedAt = 0

\* C13: a GET without force performs an upstream fetch exactly when the cache
\* is Empty or the age now - cachedAt of the entry is at least 30 minutes; an
\* age of exactly 30 minutes is Stale.
C13_StaleOrEmptyFetches ==
  [][\A r \in Requests :
       (Arrives(r) /\ ~req'[r].force) =>
         (req'[r].pc = "fetching" <=>
            (IsNull(cached) \/ now - cachedAt >= CACHE_MIN_TTL_MS))]_vars

\* a non-forced request is fetching for an entry whose age is exactly the
\* window, while no other handler is in flight
C13_Witness ==
  \E r \in Requests :
    /\ req[r].pc = "fetching" /\ ~req[r].force
    /\ ~IsNull(cached) /\ now - cachedAt = CACHE_MIN_TTL_MS
    /\ \A q \in Requests \ {r} : req[q].pc = "idle"

\* C14: with a clock that never goes back, no step of a handler sets
\* cachedAt to a value lower than the one it had; a process that starts has
\* cachedAt = 0 and its load never sets it below that.
C14_CachedAtMonotonic ==
  /\ [][now' >= now]_vars
  /\ [][IF Restart THEN cachedAt' >= 0 ELSE cachedAt' >= cachedAt]_vars

\* cachedAt has advanced twice: the snapshot file holds an earlier refresh,
\* memory a later one
C14_Witness ==
  /\ ~IsNull(file)
  /\ Val(file).cachedAt > 0
  /\ cachedAt > Val(file).cachedAt

\* the body of an error response: `error` and the one diagnostic field of its
\* status, where a 200 response has the weather entry and the cached tag
StructuredBody(resp) ==
  CASE resp.status = 200 ->
         /\ ~IsNull(resp.body) /\ ~IsNull(resp.cachedTag) /\ IsNull(resp.error)
    [] resp.status = 422 ->
         /\ ~IsNull(resp.error) /\ ~IsNull(resp.metar) /\ IsNull(resp.body)
    [] resp.status = 502 ->
         /\ ~IsNull(resp.error) /\ ~IsNull(resp.upstream) /\ IsNull(resp.body)
    [] resp.status = 500 ->
         /\ ~IsNull(resp.error) /\ ~IsNull(resp.message) /\ IsNull(resp.body)
    [] OTHER -> FALSE

\* C15: every GET that has answered has one of the statuses 200, 422, 502,
\* 500; a 422 body has `error` and `metar`, a 502 body `error` and `status`, a
\* 500 body `error` and `message`; no response is without a body, and a
\* handler that has not answered has no response.
C15_ErrorsAreStructured ==
  \A r \in Requests :
    IF req[r].pc = "done"
    THEN /\ req[r].resp.status \in {200, 422, 502, 500}
         /\ StructuredBody(req[r].resp)
    ELSE req[r].resp = NoResponse

\* one handler has answered 502 with the upstream status, the other 500 with
\* the message of what was thrown
C15_Witness ==
  \E r, q \in Requests :
    /\ req[r].pc = "done" /\ req[r].resp.status = 502
    /\ req[r].resp.upstream = Some(503)
    /\ req[q].pc = "done" /\ req[q].resp.status = 500
    /\ ~IsNull(req[q].resp.message)

\* the module has just been loaded: the process starts again
Starts == Restart \/ Crash

\* the module variables are those the snapshot f gives: cachedAt and the
\* stored RawReport are the snapshot's (the RawReport of its entry when it
\* has none of its own and the load normalizes), and the entry keeps the
\* report and every field the snapshot's entry holds
TakenFrom(f, c, m, at) ==
  /\ at = f.cachedAt
  /\ m = IF TruthyStr(f.cachedMetar) THEN f.cachedMetar
         ELSE IF route = "normalize" /\ ~IsNull(f.cached)
                   /\ TruthyStr(Val(f.cached).metar)
         THEN Val(f.cached).metar ELSE Null
  /\ IsNull(c) <=> IsNull(f.cached)
  /\ ~IsNull(c) =>
       \A k \in DOMAIN Val(c) :
         ~IsNull(Val(f.cached)[k]) => Val(c)[k] = Val(f.cached)[k]

\* the start found file f and left the variables c, m, at
StartedFrom(f, c, m, at) ==
  IF IsSnapshot(f) THEN TakenFrom(Val(f), c, m, at)
  ELSE IsNull(c) /\ IsNull(m) /\ at = 0

\* C16: a process that starts without a snapshot file, or with one it cannot
\* read or parse, has an Empty cache (and has started); one that finds a
\* snapshot has its entry, stored RawReport and cachedAt from it; and every
\* request that arrives at an Empty cache, forced or not, goes to the fetch.
C16_StartLoadsSnapshotOrEmpty ==
  /\ StartedFrom(file, cached, cachedMetar, cachedAt)
  /\ [][Starts => StartedFrom(file', cached', cachedMetar', cachedAt')]_vars
  /\ [][\A r \in Requests :
          (Arrives(r) /\ IsNull(cached)) => req'[r].pc = "fetching"]_vars

\* a non-forced request is fetching in a process that started on a file it
\* could not parse, while the other handler is idle
C16_Witness ==
  \E r \in Requests :
    /\ file = Unparseable /\ IsNull(cached) /\ cachedAt = 0
    /\ req[r].pc = "fetching" /\ ~req[r].force
    /\ \A q \in Requests \ {r} : req[q].pc = "idle"

\* no cloud layer: [] of a decoded line, or no field at all in {}
NoLayer(clouds) == IsNull(clouds) \/ Val(clouds) = <<>>

\* every field of the observation v is what the group of its own gives in the
\* line of the groups g, whatever the other groups are
FieldsFromOwnGroups(g, v) ==
  /\ v.station = IF IsNull(g.station) THEN Null
                 ELSE Some(SubSeq(Val(g.station), 7, 10))
  /\ v.obsTime = g.time
  /\ IsNull(v.wind) <=> IsNull(g.wind)
  /\ IsNull(v.visibility) <=> IsNull(g.vis)
  /\ NoLayer(v.clouds) <=> IsNull(g.cloud)
  /\ v.weather = IF IsNull(g.wx) THEN Null ELSE Some(<<Val(g.wx)>>)
  /\ IsNull(v.temperatureC) <=> IsNull(g.temp)
  /\ IsNull(v.dewPointC) <=> IsNull(g.temp)
  /\ IsNull(v.qnh_hpa) <=> IsNull(g.pres)
  /\ IsNull(v.alt_inhg)

\* C17: every decode returns an observation in which each field is set from
\* the group of its own when the line has it and is absent otherwise,
\* whatever other groups the line has; the empty and the white-space line
\* decode to an observation with every field absent.
C17_FieldsDecodeIndependently ==
  \A i \in DOMAIN ret :
    /\ DOMAIN ret[i].value = DOMAIN EmptyObservation
    /\ FieldsFromOwnGroups(Val(arg), ret[i].value)

\* C18: two decodes of the same line return equal observations in every
\* field, obsTimeLocal included, whatever the clock of the process shows at
\* each of them.
C18_DecodeIsDeterministic ==
  \A i, j \in DOMAIN ret : ret[i].value = ret[j].value

\* C19: calculateHumidity(t, t) is 100 for every number t of -99..99, and
\* calculateHumidity is null when an argument is null.
C19_SaturationAndNull ==
  \A i \in DOMAIN ret :
    /\ (Val(arg)[1] = Val(arg)[2] /\ ~IsNull(Val(arg)[1])) => ret[i] = Some(100)
    /\ (IsNull(Val(arg)[1]) \/ IsNull(Val(arg)[2])) => IsNull(ret[i])

\* calculateHumidity has returned for the arguments (-99, -99)
C19_Witness ==
  /\ arg = Some(<<Some(-99), Some(-99)>>)
  /\ ret = <<Some(100)>>

\* C20: the decode of METAR SBRP 201800Z 09008KT 9999 FEW020 24/18 Q1015 has
\* station SBRP, wind 090 at 8 kt without gust, visibility >=10km, the one
\* cloud layer FEW at 2000 ft without modifier, no present weather,
\* temperatureC 24, dewPointC 18, qnh_hpa 1015 and no alt_inhg.
C20_ExampleLineDecodes ==
  \A i \in DOMAIN ret :
    LineOf(Val(arg)) = ReportQ =>
      /\ ret[i].value.station = Some("SBRP")
      /\ ret[i].value.wind = Some([dir |-> "090", speedKt |-> 8, gustKt |-> Null])
      /\ ret[i].value.visibility = Some(">=10km")
      /\ ret[i].value.clouds =
           Some(<<[type |-> "FEW", heightFt |-> 2000, modifier |-> Null]>>)
      /\ ret[i].value.weather = Null
      /\ ret[i].value.temperatureC = Some(24)
      /\ ret[i].value.dewPointC = Some(18)
      /\ ret[i].value.qnh_hpa = Some(1015)
      /\ ret[i].value.alt_inhg = Null

\* the line of the example has been decoded
C20_Witness ==
  /\ ~IsNull(arg)
  /\ LineOf(Val(arg)) = ReportQ
  /\ Len(ret) > 0

\* C21 as stated: calculateHumidity(24, 18) is 66.
C21_ExampleHumidityIs66 ==
  arg = Some(<<Some(24), Some(18)>>) => \A i \in DOMAIN ret : ret[i] = Some(66)

\* C21: calculateHumidity(24, 18), 100 times the ratio of the Magnus terms
\* with the constants 17.625 and 243.04, rounded to the nearest integer, is
\* 69.
C21_ExampleHumidityIs69 ==
  arg = Some(<<Some(24), Some(18)>>) => \A i \in DOMAIN ret : ret[i] = Some(69)

\* calculateHumidity has returned for the arguments (24, 18)
C21_Witness ==
  /\ arg = Some(<<Some(24), Some(18)>>)
  /\ Len(ret) = 1

\* C22: the decode of a line whose temperature group is A/B, each side an
\* optional M and one or two digits, has temperatureC equal to the number of
\* the digits of A, negated when A has the M, and dewPointC the same of B:
\* each side has its own sign.
C22_SidesSignedIndependently ==
  \A i \in DOMAIN ret :
    /\ ret[i].value.temperatureC = Some(SideValue(Val(arg).sides[1]))
    /\ ret[i].value.dewPointC = Some(SideValue(Val(arg).sides[2]))

\* the group M05/M08 has been decoded to -5 and -8
C22_Witness ==
  /\ ~IsNull(arg)
  /\ Val(arg).temp = Some("M05/M08")
  /\ Len(ret) > 0
  /\ ret[1].value.temperatureC = Some(-5)
  /\ ret[1].value.dewPointC = Some(-8)

\* the step in which the request r arrives and is a cache hit
Hits(r) == Arrives(r) /\ req'[r].kind = "hit"

\* the fields decoded afresh from the report the entry c stores (the text
\* from METAR on)
FreshFields(c) == DecodedFields(ParseMetarOf[RawMetarOf[Val(c.metar)]])

\* after is before with every missing re-derivable field filled from the
\* fresh decode of its report, and every field that was present as it was
BackFilled(before, after) ==
  /\ \A k \in DOMAIN HeldFields(before) :
        HeldFields(after)[k] = IF IsNull(HeldFields(before)[k])
                               THEN FreshFields(before)[k]
                               ELSE HeldFields(before)[k]
  /\ after.humidity = IF IsNull(before.humidity)
                      THEN calculateHumidity(after.temperature, after.dewPoint)
                      ELSE before.humidity
  /\ after.metar = before.metar
  /\ after.updatedAt = before.updatedAt

\* the entry c is as the refresh that retrieved its report wrote it
WrittenByRefresh(c) ==
  c = [resultOf(Val(c.metar), Decoded(Val(c.metar)), 0)
         EXCEPT !.updatedAt = c.updatedAt]

\* the entry read from the snapshot f is in memory back-filled
LoadFills(f, c) ==
  (IsSnapshot(f) /\ ~IsNull(Val(f).cached)) =>
    BackFilled(Val(Val(f).cached), Val(c))

\* C23: at load and on every cache hit the entry becomes the entry with its
\* missing re-derivable fields filled from a fresh decode of its report and
\* its present fields unchanged; a second application changes nothing; an
\* entry written by a successful refresh is not changed.
C23_NormalizeFillsOnlyMissing ==
  /\ LoadFills(file, cached)
  /\ [][Restart => LoadFills(file', cached')]_vars
  /\ [][\A r \in Requests :
          Hits(r) =>
            /\ BackFilled(Val(cached), Val(cached'))
            /\ BackFilled(Val(cached'), Val(cached'))
            /\ WrittenByRefresh(Val(cached)) => cached' = cached]_vars

\* the handlers whose upstream call is in flight
InFlight == {r \in Requests : req[r].pc = "fetching"}

\* C24: a request that arrives and needs a refresh (forced, or no Fresh
\* entry) issues an upstream call of its own, whatever calls are in flight:
\* the calls in flight are those there were and its own.
C24_FetchesNotCoalesced ==
  [][\A r \in Requests :
       (Arrives(r) /\ (req'[r].force \/ ~Fresh)) =>
         /\ r \notin InFlight
         /\ InFlight' = InFlight \cup {r}]_vars

\* two upstream calls are in flight at once, one of a forced request and
\* one of a request that found the cache Empty
C24_Witness ==
  \E r, q \in Requests :
    /\ r # q
    /\ InFlight = {r, q}
    /\ req[r].force /\ ~req[q].force
    /\ IsNull(cached)

\* the step in which the handler r processes the upstream response of a
\* successful refresh: the report is accepted
Accepts(r) == Retrieves(r) /\ req'[r].pc = "saving"

\* C25: the refresh whose upstream response is processed last decides the
\* cache: each accepted report becomes the stored RawReport in the step that
\* processes it, whatever the other handlers hold, and within a process
\* nothing else changes the stored RawReport.
C25_LastProcessedDecides ==
  /\ [][\A r \in Requests : Accepts(r) => cachedMetar' = req'[r].metar]_vars
  /\ [][cachedMetar' # cachedMetar =>
          Restart \/ \E r \in Requests : Accepts(r)]_vars

\* two concurrent refreshes were accepted with different reports and are
\* both waiting for their snapshot write: the stored RawReport is the report
\* of one of them, the other one's was overwritten
C25_Witness ==
  \E r, q \in Requests :
    /\ req[r].pc = "saving" /\ req[r].kind = "replace"
    /\ req[q].pc = "saving" /\ req[q].kind = "replace"
    /\ req[r].metar # req[q].metar
    /\ cachedMetar = req[q].metar
    /\ Val(cached).metar = req[q].metar

\* the step in which the handler of a cache hit r gets its response after
\* the write of the normalized entry
HitEnds(r) == req[r].kind = "hit" /\ req[r].pc = "saving" /\ req'[r].pc = "done"

\* C26: no step of a cache hit changes cachedAt or the stored RawReport,
\* and a non-forced request that arrives 30 minutes or more after cachedAt
\* fetches: hits do not extend the freshness window.
C26_HitsKeepTheWindow ==
  /\ [][\A r \in Requests :
          (Hits(r) \/ HitEnds(r)) => UNCHANGED <<cachedAt, cachedMetar>>]_vars
  /\ [][\A r \in Requests :
          (Arrives(r) /\ ~req'[r].force /\ now >= cachedAt + CACHE_MIN_TTL_MS) =>
            req'[r].pc = "fetching"]_vars

\* a cache hit has been answered from the entry, and a non-forced request
\* that arrived later, 30 minutes after cachedAt, is fetching
C26_Witness ==
  \E r, q \in Requests :
    /\ req[r].pc = "done" /\ req[r].kind = "hit" /\ req[r].resp.status = 200
    /\ req[q].pc = "fetching" /\ ~req[q].force
    /\ ~IsNull(cached)
    /\ now = cachedAt + CACHE_MIN_TTL_MS

\* the step in which the handler r ends with status 502 or 500
Fails(r) ==
  /\ req[r].pc # "done" /\ req'[r].pc = "done"
  /\ req'[r].resp.status \in {502, 500}

\* C27: the step that ends a request with 502 or 500 changes neither the
\* entry nor the stored RawReport nor cachedAt, as the step of its arrival;
\* and no step of a handler makes a populated cache Empty.
C27_FailuresKeepTheCache ==
  /\ [][\A r \in Requests :
          (Fails(r) \/ (Arrives(r) /\ req'[r].pc = "fetching")) =>
            UNCHANGED <<cached, cachedMetar, cachedAt>>]_vars
  /\ [][(~IsNull(cached) /\ IsNull(cached')) => Restart]_vars

\* one request has ended with 502 and one with 500 while the entry that
\* existed before them is still there and Fresh
C27_Witness ==
  \E r, q \in Requests :
    /\ req[r].pc = "done" /\ req[r].resp.status = 502
    /\ req[q].pc = "done" /\ req[q].resp.status = 500
    /\ Fresh /\ cachedAt > 0
    /\ Val(cached).metar = cachedMetar

\* the handler r is between its arrival and its response
Pending(r) == req[r].pc \in {"fetching", "reading", "saving"}

\* C28: when every upstream call and every snapshot write eventually
\* returns or fails, every request that has arrived eventually has its
\* response, under every interleaving; and a response, once given, is not
\* given again or changed.
C28_EveryRequestAnswered ==
  /\ \A r \in Requests : Pending(r) ~> (req[r].pc = "done")
  /\ [][\A r \in Requests :
          req[r].pc = "done" =>
            \/ req'[r] = req[r]
            \/ req'[r] = Idle]_vars

\* both handlers are waiting at once, one for its upstream call and one for
\* its snapshot write
C28_Witness ==
  \E r, q \in Requests :
    /\ req[r].pc = "fetching"
    /\ req[q].pc = "saving"

====
